---- MODULE Spec2Model ----
(***************************************************************************)
(* Chunked-content sessions and the page-search cursor of                  *)
(* botasaurus_mcp_server.py: SessionManager, visit_page, load_more,        *)
(* read_chunk, search_on_page and search_next_on_page.                     *)
(*                                                                         *)
(* A Python str is a sequence of one-character strings and a dict is a     *)
(* record.  Every tool is an operator from the program state and the       *)
(* arguments to the state after the call and the dict the call returns.    *)
(* Time is counted in minutes; one tool call runs at one instant.          *)
(***************************************************************************)
EXTENDS Integers, Sequences, FiniteSets, TLC

\* ---------------------------------------------------------------- bounds
\* the clock stops advancing beyond this minute
MaxTime == 31
\* the load_more calls of a run are counted up to this number
MaxRun == 2
\* search_next_on_page is not called when it would move the delivered index
\* below -MaxBack
MaxBack == 1

\* ------------------------------------------------------ program constants
\* botasaurus_mcp_server.py:208 and :290 use 5000; the model scales the chunk
\* size so that documents of several chunks stay enumerable.  Every formula
\* below is stated relative to chunk_size.
chunk_size == 5
\* botasaurus_mcp_server.py:366 and :460 use 200 (100 characters of context
\* on each side); scaled with the chunk size.
snippet_length == 4
\* botasaurus_mcp_server.py:35, session_timeout_minutes=30
session_timeout == 30
\* botasaurus_mcp_server.py:361, "num_snippets * 10"
match_cap_factor == 10

\* ------------------------------------------------------------ characters
\* LATIN CAPITAL LETTER I WITH DOT ABOVE, the one code point whose
\* str.lower() has two code points: "i" followed by COMBINING DOT ABOVE.
DotI == "U+0130"
CombDot == "U+0307"

Min(a, b) == IF a < b THEN a ELSE b
Max(a, b) == IF a > b THEN a ELSE b

\* s[i:j] for 0 <= i and 0 <= j
Slice(s, i, j) ==
    LET e == Min(j, Len(s))
    IN  IF i >= e THEN << >> ELSE SubSeq(s, i + 1, e)

\* s[:n] for any integer n (a negative n counts from the end)
PyPrefix(s, n) ==
    IF n >= 0 THEN Slice(s, 0, n) ELSE Slice(s, 0, Max(Len(s) + n, 0))

\* str.lower() of one character
Lower(c) ==
    CASE c = "A" -> <<"a">>
      [] c = "B" -> <<"b">>
      [] c = "X" -> <<"x">>
      [] c = DotI -> <<"i", CombDot>>
      [] OTHER -> <<c>>

\* str.lower()
RECURSIVE LowerStr(_)
LowerStr(s) == IF s = << >> THEN << >> ELSE Lower(Head(s)) \o LowerStr(Tail(s))

\* "".join(chunks)
RECURSIVE Join(_)
Join(chunks) == IF chunks = << >> THEN << >> ELSE Head(chunks) \o Join(Tail(chunks))

\* hay.find(needle, start): the lowest index >= start at which needle occurs,
\* -1 when there is none
Find(hay, needle, start) ==
    LET m == Len(needle)
        occ == {p \in start..(Len(hay) - m) : SubSeq(hay, p + 1, p + m) = needle}
    IN  IF occ = {} THEN -1 ELSE CHOOSE p \in occ : \A q \in occ : p <= q

\* str(n) for an integer n
RECURSIVE NatStr(_)
NatStr(n) ==
    LET d == <<"0", "1", "2", "3", "4", "5", "6", "7", "8", "9">>
    IN  IF n < 10 THEN <<d[n + 1]>> ELSE NatStr(n \div 10) \o <<d[(n % 10) + 1]>>
\* str(n) with the sign of a negative n left out
IntStr_no_sign(n) == IF n < 0 THEN NatStr(0 - n) ELSE NatStr(n)

\* str(n) for any integer n
IntStr(n) == IF n < 0 THEN <<"-">> \o NatStr(0 - n) ELSE NatStr(n)

\* ------------------------------------------------------------- the inputs
\* page bodies driver.get_text("body") may return: the empty text, a text of
\* two full chunks and a shorter third one with more than ten occurrences of
\* "aa", a text of exactly one full chunk whose lower() is longer than the
\* text itself by more than half a snippet, and one whose lower() is longer
\* by exactly half a snippet
Docs == { << >>,
          <<"a", "A", "a", "a", "A", "a", "a", "a", "a", "A", "a", "a">>,
          <<DotI, DotI, DotI, "a", "a">>,
          <<"x", DotI, DotI, "a", "a">> }

\* search texts
Needles == { << >>, <<"A", "a">> }
\* num_snippets arguments
NumSnippets == {-1, 0, 1, 2}
\* chunk_index arguments
ChunkIndexes == -1..3

\* what urlparse(url) yields for the urls offered to visit_page: whether it
\* returns (it raises ValueError on "http://["), the scheme and the hostname;
\* a hostname of None is the empty sequence
Urls ==
  { [text |-> "https://example.com", parses |-> TRUE, scheme |-> "https",
     hostname |-> <<"e", "x", "a", "m", "p", "l", "e", ".", "c", "o", "m">>],
    [text |-> "http://httpbin.org", parses |-> TRUE, scheme |-> "http",
     hostname |-> <<"h", "t", "t", "p", "b", "i", "n", ".", "o", "r", "g">>],
    [text |-> "http://localhost", parses |-> TRUE, scheme |-> "http",
     hostname |-> <<"l", "o", "c", "a", "l", "h", "o", "s", "t">>],
    [text |-> "http://127.0.0.1", parses |-> TRUE, scheme |-> "http",
     hostname |-> <<"1", "2", "7", ".", "0", ".", "0", ".", "1">>],
    [text |-> "http://0.0.0.0", parses |-> TRUE, scheme |-> "http",
     hostname |-> <<"0", ".", "0", ".", "0", ".", "0">>],
    [text |-> "http://192.168.1.1", parses |-> TRUE, scheme |-> "http",
     hostname |-> <<"1", "9", "2", ".", "1", "6", "8", ".", "1", ".", "1">>],
    [text |-> "https://10.0.0.1", parses |-> TRUE, scheme |-> "https",
     hostname |-> <<"1", "0", ".", "0", ".", "0", ".", "1">>],
    [text |-> "http://172.16.0.1", parses |-> TRUE, scheme |-> "http",
     hostname |-> <<"1", "7", "2", ".", "1", "6", ".", "0", ".", "1">>],
    [text |-> "file:///etc/passwd", parses |-> TRUE, scheme |-> "file",
     hostname |-> << >>],
    [text |-> "javascript:alert(1)", parses |-> TRUE, scheme |-> "javascript",
     hostname |-> << >>],
    [text |-> "http://", parses |-> TRUE, scheme |-> "http",
     hostname |-> << >>],
    [text |-> "https:///path", parses |-> TRUE, scheme |-> "https",
     hostname |-> << >>],
    [text |-> "http://[", parses |-> FALSE, scheme |-> "",
     hostname |-> << >>] }

\* the values str(uuid.uuid4()) takes in a run; the k-th call returns str(k)
SessionIds == { <<"1">>, <<"2">> }
NoId == << >>

\* ------------------------------------------------------------------ state
VARIABLES
    sessions,        \* session_manager.sessions: session id -> session dict
    current,         \* _current_session_context.get('current')
    search_context,  \* _current_search_context
    now,             \* datetime.now(), in minutes
    issued,          \* the number of ids uuid.uuid4() has produced
    quit_calls,      \* history: session id -> number of driver.quit() calls
    loads,           \* history: load_more calls since the last successful visit_page
    batches_ok       \* history: the current search used batch sizes >= 1 only
                     \*          and found its session live on every call

vars == <<sessions, current, search_context, now, issued, quit_calls, loads,
          batches_ok>>

\* {} as the value of _current_search_context
NoSearch == [present |-> FALSE, session_id |-> NoId, search_text |-> << >>,
             all_matches |-> << >>, current_index |-> 0, num_snippets |-> 0]

\* the program state: the two module-level dicts and the session manager
Program == [sessions |-> sessions, quit_calls |-> quit_calls, issued |-> issued,
            current |-> current, search_context |-> search_context]

\* a call leaves the program in state g and returns the dict ret
Outcome(g, ret) == [g |-> g, ret |-> ret]

\* the test `if not current_session_id` with the pointer taken as always set
no_active_session_never(g) == FALSE

\* `if not current_session_id` on _current_session_context.get('current')
no_active_session(g) == g.current = NoId

\* the test `if not _current_search_context` with the dict taken as never
\* empty
no_search_context_never(g) == FALSE

\* `if not _current_search_context`
no_search_context(g) == ~g.search_context.present

\* --------------------------------------------------------- SessionManager
create_session(g, driver, t) ==
    LET session_id == IntStr(g.issued + 1)
    IN  [g EXCEPT !.issued = @ + 1,
                  !.sessions =
                      [s \in DOMAIN g.sessions \cup {session_id} |->
                          IF s = session_id
                          THEN [driver |-> driver, created_at |-> t, last_used |-> t,
                                has_chunks |-> FALSE, content_chunks |-> << >>,
                                current_chunk_index |-> 0,
                                \* history: the body text fetched for the session
                                \* and the chunk list stored at its creation
                                body |-> << >>, created_chunks |-> << >>]
                          ELSE g.sessions[s]]]

\* remove_session that quits the driver and keeps the record in the store
remove_session_keep_record(g, sid) ==
    IF sid \in DOMAIN g.sessions
    THEN [g EXCEPT !.quit_calls[sid] = @ + 1]
    ELSE g

\* session['driver'].quit() raises for some drivers and returns for the
\* others: here it raises for the drivers of the odd-numbered sessions
quit_raises(driver) == driver.id % 2 = 1

\* the try statement around quit() with the exception let through
bare_except_reraise(raised) == raised

\* `except: pass`: TRUE when what quit() raised leaves the try statement
bare_except(raised) == FALSE

\* driver.quit() is attempted once; `del` is reached unless an exception
\* leaves the try statement
remove_session(g, sid) ==
    IF sid \in DOMAIN g.sessions
    THEN LET raised == quit_raises(g.sessions[sid].driver)
             g1 == [g EXCEPT !.quit_calls[sid] = @ + 1]
         IN  IF bare_except(raised)
             THEN g1
             ELSE [g1 EXCEPT !.sessions =
                                 [s \in DOMAIN g.sessions \ {sid} |-> g.sessions[s]]]
    ELSE g

\* expired_sessions with a session idle for exactly the timeout counted in
expired_sessions_at_timeout(g, t) ==
    {sid \in DOMAIN g.sessions : t - g.sessions[sid].last_used >= session_timeout}

\* the list of the ids whose idle time is over the timeout
expired_sessions(g, t) ==
    {sid \in DOMAIN g.sessions : t - g.sessions[sid].last_used > session_timeout}

RECURSIVE remove_all(_, _)
remove_all(g, sids) ==
    IF sids = {} THEN g
    ELSE LET sid == CHOOSE s \in sids : TRUE
         IN  remove_all(remove_session(g, sid), sids \ {sid})

cleanup_expired_sessions(g, t) == remove_all(g, expired_sessions(g, t))

\* get_session that sweeps only when the lookup misses
get_session_sweep_on_miss(g, sid, t) ==
    IF sid \in DOMAIN g.sessions
    THEN [g EXCEPT !.sessions[sid].last_used = t]
    ELSE cleanup_expired_sessions(g, t)

\* the program state after get_session(sid); the session it returns is
\* .sessions[sid] when sid is in the store and None otherwise
get_session(g, sid, t) ==
    LET g1 == cleanup_expired_sessions(g, t)
    IN  IF sid \in DOMAIN g1.sessions
        THEN [g1 EXCEPT !.sessions[sid].last_used = t]
        ELSE g1

\* ------------------------------------------------------------ validate_url
\* startswith taken as equality with the prefix
PyStartsWith_equal(s, prefix) == s = prefix

\* s.startswith(prefix)
PyStartsWith(s, prefix) ==
    Len(s) >= Len(prefix) /\ SubSeq(s, 1, Len(prefix)) = prefix

validate_url(u) ==
    IF ~u.parses THEN FALSE
    ELSE IF u.scheme \notin {"http", "https"} THEN FALSE
    ELSE IF u.hostname \in { <<"l", "o", "c", "a", "l", "h", "o", "s", "t">>,
                             <<"1", "2", "7", ".", "0", ".", "0", ".", "1">>,
                             <<"0", ".", "0", ".", "0", ".", "0">> } THEN FALSE
    ELSE IF u.hostname # << >> /\ PyStartsWith(u.hostname, <<"1", "9", "2", ".", "1", "6", "8", ".">>) THEN FALSE
    ELSE IF u.hostname # << >> /\ PyStartsWith(u.hostname, <<"1", "0", ".">>) THEN FALSE
    ELSE IF u.hostname # << >> /\ PyStartsWith(u.hostname, <<"1", "7", "2", ".">>) THEN FALSE
    ELSE TRUE

\* ------------------------------------------------------------- visit_page
\* split_chunks with the range cut to the full chunks: a shorter last chunk
\* is lost
split_chunks_full_only(content) ==
    [k \in 1..(Len(content) \div chunk_size) |->
        Slice(content, (k - 1) * chunk_size, (k - 1) * chunk_size + chunk_size)]

\* content[i:i+chunk_size] for i in range(0, len(content), chunk_size)
split_chunks(content) ==
    [k \in 1..((Len(content) + chunk_size - 1) \div chunk_size) |->
        Slice(content, (k - 1) * chunk_size, (k - 1) * chunk_size + chunk_size)]

\* format_chunk with the marker put after every chunk that is not empty
format_chunk_marker_unless_empty(index, raw_chunk) ==
    <<"Chunk ">> \o IntStr(index) \o <<"\n">> \o raw_chunk
        \o (IF Len(raw_chunk) > 0 THEN <<"...">> ELSE << >>)

\* f"Chunk {index}\n{raw_chunk}", then "..." when the chunk is full size
format_chunk(index, raw_chunk) ==
    <<"Chunk ">> \o IntStr(index) \o <<"\n">> \o raw_chunk
        \o (IF Len(raw_chunk) = chunk_size THEN <<"...">> ELSE << >>)

\* what the page load does: it raises, or get_text("body") returns body
Fetches == {[raises |-> TRUE, body |-> << >>]}
               \cup {[raises |-> FALSE, body |-> d] : d \in Docs}

\* the pointer set only when no page was visited before
set_current_if_unset(g, session_id) ==
    IF g.current = NoId THEN [g EXCEPT !.current = session_id] ELSE g

\* _current_session_context['current'] = session_id
set_current(g, session_id) == [g EXCEPT !.current = session_id]

\* the number of driver.get(url) calls of one visit_page: none when the url
\* is refused, one otherwise
driver_get_calls(u, f) == IF ~validate_url(u) THEN 0 ELSE 1

\* the except clause with the current-session pointer cleared
visit_failed_clear_current(g, e) ==
    Outcome([g EXCEPT !.current = NoId], [error |-> <<"Failed to visit page: ", e>>])

\* `except Exception as e`: the driver of the failed load, which is in no
\* session, is quit and the error text returned
visit_failed(g, e) == Outcome(g, [error |-> <<"Failed to visit page: ", e>>])

visit_page_impl(g, u, f, t) ==
    IF ~validate_url(u)
    THEN Outcome(g, [error |-> <<"Invalid or unsafe URL: ", u.text>>])
    ELSE IF f.raises
    THEN visit_failed(g, "str(e)")
    ELSE LET session_id == IntStr(g.issued + 1)
             g1 == create_session(g, [id |-> g.issued + 1], t)
             g2 == get_session(g1, session_id, t)
             content_chunks == split_chunks(f.body)
             chunked_content ==
                 IF content_chunks # << >>
                 THEN format_chunk(0, content_chunks[1])
                 ELSE <<"Chunk ">> \o IntStr(0) \o <<"\n">>
             g3 == set_current(
                       [g2 EXCEPT !.sessions[session_id].has_chunks = TRUE,
                                  !.sessions[session_id].content_chunks = content_chunks,
                                  !.sessions[session_id].current_chunk_index = 0,
                                  !.sessions[session_id].body = f.body,
                                  !.sessions[session_id].created_chunks = content_chunks],
                       session_id)
         IN  Outcome(g3, [url |-> u.text, content |-> chunked_content,
                          format |-> "text", chunk_index |-> 0,
                          has_more_chunks |-> Len(content_chunks) > 1])

\* --------------------------------------------------------------- load_more
\* more_after compared against the length instead of the last index
more_after_off_by_one(next_index, content_chunks) == next_index < Len(content_chunks)

\* "has_more_chunks" of a successful load_more
more_after(next_index, content_chunks) == next_index < Len(content_chunks) - 1

load_more_impl(g, t) ==
    IF no_active_session(g)
    THEN Outcome(g, [error |-> <<"No active session found. Please call visit_page first.">>])
    ELSE LET g1 == get_session(g, g.current, t)
         IN  IF g.current \notin DOMAIN g1.sessions
             THEN Outcome(g1, [error |-> <<"Session not found: ">> \o g.current])
             ELSE LET session == g1.sessions[g.current]
                      current_index == session.current_chunk_index
                      next_index == current_index + 1
                  IN  IF ~session.has_chunks
                      THEN Outcome(g1, [status |-> "error",
                                        message |-> <<"No content chunks available for this session">>])
                      ELSE IF next_index < Len(session.content_chunks)
                      THEN LET raw_chunk == session.content_chunks[next_index + 1]
                           IN  Outcome([g1 EXCEPT !.sessions[g.current].current_chunk_index
                                                      = next_index],
                                       [status |-> "success",
                                        message |-> <<"Chunk ">> \o IntStr(next_index)
                                                       \o <<" loaded successfully">>,
                                        content |-> format_chunk(next_index, raw_chunk),
                                        chunk_index |-> next_index,
                                        has_more_chunks |->
                                            more_after(next_index, session.content_chunks)])
                      ELSE Outcome(g1, [status |-> "complete",
                                        message |-> <<"No more chunks available">>,
                                        chunk_index |-> current_index,
                                        has_more_chunks |-> FALSE])

\* -------------------------------------------------------------- read_chunk
\* chunk_at with chunk_index taken as a 1-based position
chunk_at_one_based(content_chunks, chunk_index) ==
    content_chunks[IF chunk_index = 0 THEN 1 ELSE chunk_index]

\* content_chunks[chunk_index] for an index in range
chunk_at(content_chunks, chunk_index) == content_chunks[chunk_index + 1]

read_chunk_impl(g, chunk_index, t) ==
    IF no_active_session(g)
    THEN Outcome(g, [error |-> <<"No active session found. Please call visit_page first.">>])
    ELSE LET g1 == get_session(g, g.current, t)
         IN  IF g.current \notin DOMAIN g1.sessions
             THEN Outcome(g1, [error |-> <<"Session not found: ">> \o g.current])
             ELSE LET content_chunks == g1.sessions[g.current].content_chunks
                  IN  IF ~g1.sessions[g.current].has_chunks
                      THEN Outcome(g1, [chunk_index |-> chunk_index,
                                        error |-> <<"No content chunks available in this session">>,
                                        total_chunks |-> 0])
                      ELSE IF chunk_index < 0 \/ chunk_index >= Len(content_chunks)
                      THEN Outcome(g1, [session_id |-> g.current,
                                        chunk_index |-> chunk_index,
                                        error |-> <<"Chunk index ">> \o IntStr(chunk_index)
                                                     \o <<" is out of range. Available chunks: 0 to ">>
                                                     \o IntStr(Len(content_chunks) - 1),
                                        total_chunks |-> Len(content_chunks)])
                      ELSE LET chunk_content == chunk_at(content_chunks, chunk_index)
                           IN  Outcome(g1, [chunk_index |-> chunk_index,
                                            content |-> chunk_content,
                                            total_chunks |-> Len(content_chunks),
                                            chunk_size |-> Len(chunk_content)])

\* ---------------------------------------------------------- search_on_page
\* the while loop of search_on_page: the offsets of text_lower in
\* all_text_lower, found from start on, appended to matches
RECURSIVE find_matches(_, _, _, _, _)
find_matches(all_text_lower, text_lower, start, matches, num_snippets) ==
    LET pos == Find(all_text_lower, text_lower, start)
    IN  IF pos = -1 THEN matches
        ELSE LET matches1 == Append(matches, pos)
             IN  IF Len(matches1) >= num_snippets * match_cap_factor
                 THEN matches1
                 ELSE find_matches(all_text_lower, text_lower, pos + 1, matches1,
                                   num_snippets)

\* the chunk a match is attributed to: the first chunk whose span holds
\* match_pos, chunk 0 when no span holds it
RECURSIVE chunk_walk(_, _, _, _)
chunk_walk(content_chunks, match_pos, i, temp_pos) ==
    IF i >= Len(content_chunks) THEN 0
    ELSE IF temp_pos <= match_pos /\ match_pos < temp_pos + Len(content_chunks[i + 1])
    THEN i
    ELSE chunk_walk(content_chunks, match_pos, i + 1,
                    temp_pos + Len(content_chunks[i + 1]))

\* the body of the snippet loops: the list of snippets (none or one) built
\* for the match at match_pos
make_snippet(all_chunks_text, content_chunks, text, match_pos) ==
    LET text_lower == LowerStr(text)
        start_pos == Max(0, match_pos - snippet_length \div 2)
        end_pos == Min(Len(all_chunks_text),
                       match_pos + Len(text) + snippet_length \div 2)
        snippet == Slice(all_chunks_text, start_pos, end_pos)
        match_in_snippet == Find(LowerStr(snippet), text_lower, 0)
    IN  IF match_in_snippet # -1
        THEN LET before == Slice(snippet, 0, match_in_snippet)
                 found_text == Slice(snippet, match_in_snippet,
                                     match_in_snippet + Len(text))
                 after == Slice(snippet, match_in_snippet + Len(text), Len(snippet))
                 \* .strip() removes nothing: the text starts and ends with "..."
                 snippet_text == <<"...">> \o before \o <<"[">> \o found_text
                                     \o <<"]">> \o after \o <<"...">>
             IN  << [chunk_index |-> chunk_walk(content_chunks, match_pos, 0, 0),
                     snippet |-> snippet_text,
                     position |-> match_pos] >>
        ELSE << >>

\* the for loop of search_on_page over matches[:num_snippets]
RECURSIVE first_snippets(_, _, _, _, _, _)
first_snippets(all_chunks_text, content_chunks, text, todo, snippets, num_snippets) ==
    IF todo = << >> THEN snippets
    ELSE LET made == make_snippet(all_chunks_text, content_chunks, text, Head(todo))
             snippets1 == snippets \o made
         IN  IF made # << >> /\ Len(snippets1) >= num_snippets
             THEN snippets1
             ELSE first_snippets(all_chunks_text, content_chunks, text, Tail(todo),
                                 snippets1, num_snippets)

\* context_update that keeps the offset list of a search already stored
context_update_keep_matches(old, new) ==
    IF old.present THEN [new EXCEPT !.all_matches = old.all_matches] ELSE new

\* _current_search_context.update(new)
context_update(old, new) == new

search_on_page_impl(g, text, num_snippets, t) ==
    IF no_active_session(g)
    THEN Outcome(g, [error |-> <<"No active session found. Please call visit_page first.">>])
    ELSE LET g1 == get_session(g, g.current, t)
         IN  IF g.current \notin DOMAIN g1.sessions
             THEN Outcome(g1, [error |-> <<"Session not found: ">> \o g.current])
             ELSE IF ~g1.sessions[g.current].has_chunks
             THEN Outcome(g1, [search_text |-> text, total_matches |-> 0,
                               snippets_returned |-> 0, snippets |-> << >>,
                               message |-> <<"No content chunks available for searching in this session">>])
             ELSE LET content_chunks == g1.sessions[g.current].content_chunks
                      all_chunks_text == Join(content_chunks)
                      matches == find_matches(LowerStr(all_chunks_text), LowerStr(text),
                                              0, << >>, num_snippets)
                      snippets == first_snippets(all_chunks_text, content_chunks, text,
                                                 PyPrefix(matches, num_snippets),
                                                 << >>, num_snippets)
                  IN  Outcome([g1 EXCEPT !.search_context =
                                  context_update(@,
                                      [present |-> TRUE,
                                       session_id |-> g.current,
                                       search_text |-> text,
                                       all_matches |-> matches,
                                       current_index |-> Len(snippets),
                                       num_snippets |-> num_snippets])],
                              [search_text |-> text,
                               total_matches |-> Len(matches),
                               snippets_returned |-> Len(snippets),
                               snippets |-> snippets])

\* ----------------------------------------------------- search_next_on_page
\* range(a, b)
PyRange(a, b) == [k \in 1..Max(b - a, 0) |-> a + k - 1]

\* all_matches[i] raises IndexError
IndexError(all_matches, i) == i >= Len(all_matches) \/ i < 0 - Len(all_matches)
\* all_matches[i]; a negative i counts from the end
PyIndex(all_matches, i) ==
    IF i >= 0 THEN all_matches[i + 1] ELSE all_matches[Len(all_matches) + i + 1]

\* an except clause that lets the exception through to the caller
except_clause_reraise(prefix, exc) == [raised |-> exc]

\* except Exception as e: return {"error": f"<prefix>{str(e)}"}
except_clause(prefix, exc) == [error |-> <<prefix, exc>>]

\* the for loop of search_next_on_page over the indices idx
RECURSIVE next_snippets(_, _, _, _, _)
next_snippets(all_chunks_text, content_chunks, search_text, all_matches, idx) ==
    IF idx = << >> THEN << >>
    ELSE make_snippet(all_chunks_text, content_chunks, search_text,
                      PyIndex(all_matches, Head(idx)))
             \o next_snippets(all_chunks_text, content_chunks, search_text,
                              all_matches, Tail(idx))

search_next_on_page_impl(g, num_snippets, t) ==
    IF no_search_context(g)
    THEN Outcome(g, [error |-> <<"No active search context found. Please call search_on_page first.">>])
    ELSE LET search_text == g.search_context.search_text
             all_matches == g.search_context.all_matches
             current_index == g.search_context.current_index
             session_id == g.search_context.session_id
         IN  IF search_text = << >>
             THEN Outcome(g, [error |-> <<"No search text found in context.">>])
             ELSE IF session_id = NoId
             THEN Outcome(g, [error |-> <<"No session ID found in context.">>])
             ELSE LET g1 == get_session(g, session_id, t)
                  IN  IF session_id \notin DOMAIN g1.sessions
                      THEN Outcome(g1, [error |-> <<"Session not found: ">> \o session_id])
                      ELSE IF ~g1.sessions[session_id].has_chunks
                      THEN Outcome(g1, [search_text |-> search_text, total_matches |-> 0,
                                        snippets_returned |-> 0, snippets |-> << >>,
                                        message |-> <<"No content chunks available for searching in this session">>])
                      ELSE LET content_chunks == g1.sessions[session_id].content_chunks
                               all_chunks_text == Join(content_chunks)
                               new_index == Min(current_index + num_snippets,
                                                Len(all_matches))
                               idx == PyRange(current_index, new_index)
                           IN  IF \E k \in 1..Len(idx) : IndexError(all_matches, idx[k])
                               THEN Outcome(g1, except_clause("Failed to search next on page: ",
                                                              "list index out of range"))
                               ELSE LET snippets == next_snippets(all_chunks_text,
                                                        content_chunks, search_text,
                                                        all_matches, idx)
                                    IN  Outcome([g1 EXCEPT !.search_context.current_index
                                                               = new_index],
                                                [search_text |-> search_text,
                                                 total_matches |-> Len(all_matches),
                                                 snippets_returned |-> Len(snippets),
                                                 snippets |-> snippets,
                                                 has_more_results |->
                                                     Len(all_matches) > new_index])

\* ---------------------------------------------------------------- actions
\* the program is left in state g
Becomes(g) ==
    /\ sessions' = g.sessions
    /\ quit_calls' = g.quit_calls
    /\ issued' = g.issued
    /\ current' = g.current
    /\ search_context' = g.search_context

\* the session recorded in the search context is in the store and not idle
\* for longer than the timeout
SearchSessionLive ==
    /\ search_context.session_id \in DOMAIN sessions
    /\ now - sessions[search_context.session_id].last_used <= session_timeout

VisitPage(u, f) ==
    /\ (validate_url(u) /\ ~f.raises) => IntStr(issued + 1) \in SessionIds
    /\ Becomes(visit_page_impl(Program, u, f, now).g)
    /\ loads' = IF validate_url(u) /\ ~f.raises THEN 0 ELSE loads
    /\ UNCHANGED <<now, batches_ok>>

LoadMore ==
    /\ Becomes(load_more_impl(Program, now).g)
    /\ loads' = IF current = NoId THEN loads ELSE Min(loads + 1, MaxRun)
    /\ UNCHANGED <<now, batches_ok>>

ReadChunk(chunk_index) ==
    /\ Becomes(read_chunk_impl(Program, chunk_index, now).g)
    /\ UNCHANGED <<now, loads, batches_ok>>

SearchOnPage(text, num_snippets) ==
    /\ Becomes(search_on_page_impl(Program, text, num_snippets, now).g)
    /\ batches_ok' = IF "error" \in DOMAIN search_on_page_impl(Program, text, num_snippets, now).ret
                     THEN batches_ok
                     ELSE num_snippets >= 1
    /\ UNCHANGED <<now, loads>>

SearchNextOnPage(num_snippets) ==
    /\ search_context.current_index + num_snippets >= 0 - MaxBack
    /\ Becomes(search_next_on_page_impl(Program, num_snippets, now).g)
    /\ batches_ok' = (batches_ok /\ num_snippets >= 1 /\ SearchSessionLive)
    /\ UNCHANGED <<now, loads>>

\* session_manager.remove_session(sid), called directly
RemoveSession(sid) ==
    /\ Becomes(remove_session(Program, sid))
    /\ UNCHANGED <<now, loads, batches_ok>>

\* time passes between two calls
Tick(d) ==
    /\ now + d <= MaxTime
    /\ now' = now + d
    /\ UNCHANGED <<sessions, current, search_context, quit_calls, issued, loads,
                   batches_ok>>

Init ==
    /\ sessions = << >>
    /\ current = NoId
    /\ search_context = NoSearch
    /\ now = 0
    /\ issued = 0
    /\ quit_calls = [sid \in SessionIds |-> 0]
    /\ loads = 0
    /\ batches_ok = FALSE

Next ==
    \/ \E u \in Urls, f \in Fetches : VisitPage(u, f)
    \/ LoadMore
    \/ \E i \in ChunkIndexes : ReadChunk(i)
    \/ \E t \in Needles, n \in NumSnippets : SearchOnPage(t, n)
    \/ \E n \in NumSnippets : SearchNextOnPage(n)
    \/ \E sid \in SessionIds : RemoveSession(sid)
    \/ \E d \in {session_timeout, session_timeout + 1} : Tick(d)

Spec == Init /\ [][Next]_vars

\* ================================================================ claims
\* sid is in the store and not idle for longer than the timeout
Live(sid) ==
    /\ sid \in DOMAIN sessions
    /\ now - sessions[sid].last_used <= session_timeout

\* sid is in the store and idle for longer than the timeout
Expired(sid) ==
    /\ sid \in DOMAIN sessions
    /\ now - sessions[sid].last_used > session_timeout

Positions(snippets) == [i \in 1..Len(snippets) |-> snippets[i].position]
Elements(seq) == {seq[i] : i \in 1..Len(seq)}
NoError(ret) == "error" \notin DOMAIN ret
SessionNotFound(ret, sid) ==
    /\ DOMAIN ret = {"error"}
    /\ ret.error = <<"Session not found: ">> \o sid

\* C1: a stored session whose body text has length L >= 1 holds ceil(L /
\* chunk_size) chunks, every chunk but the last has chunk_size characters,
\* the last has between 1 and chunk_size, and the chunks joined in order are
\* the body text.
C1_ChunkingRoundTrip ==
    \A sid \in DOMAIN sessions :
        LET body == sessions[sid].body
            chunks == sessions[sid].content_chunks
            K == Len(chunks)
        IN  Len(body) >= 1 =>
                /\ (K - 1) * chunk_size < Len(body)
                /\ Len(body) <= K * chunk_size
                /\ \A k \in 1..(K - 1) : Len(chunks[k]) = chunk_size
                /\ Len(chunks[K]) \in 1..chunk_size
                /\ Join(chunks) = body

\* a stored page of three chunks whose last chunk is shorter than chunk_size
C1_Witness ==
    \E sid \in DOMAIN sessions :
        /\ Len(sessions[sid].body) = 2 * chunk_size + 2
        /\ Len(sessions[sid].content_chunks) = 3

\* the j-th load_more call after the successful visit_page of a page with K
\* chunks, j <= K - 1, returns chunk_index j with the chunk stored at j and
\* has_more_chunks = (j < K - 1)
NextLoadIsInSequence ==
    LET K == Len(sessions[current].created_chunks)
        j == loads + 1
        ret == load_more_impl(Program, now).ret
    IN  (loads < MaxRun /\ j <= K - 1) =>
            /\ NoError(ret)
            /\ DOMAIN ret = {"status", "message", "content", "chunk_index",
                             "has_more_chunks"}
            /\ ret.chunk_index = j
            /\ ret.content = format_chunk(j, sessions[current].created_chunks[j + 1])
            /\ ret.has_more_chunks = (j < K - 1)

\* C2 as stated: after a successful visit_page of a page with K chunks, K-1
\* consecutive load_more calls return chunk_index 1 .. K-1 in order, each
\* with its chunk, and has_more_chunks = false only on the last of them.
C2_Original ==
    current \in DOMAIN sessions => NextLoadIsInSequence

\* C2 as amended: the same, for calls made while the session is in the store
\* and not idle for longer than the timeout.
C2_LoadMoreSequence ==
    Live(current) => NextLoadIsInSequence

\* two load_more calls have walked a page of three chunks to its last chunk
C2_Witness ==
    /\ Live(current)
    /\ loads = 2
    /\ Len(sessions[current].created_chunks) = 3
    /\ sessions[current].current_chunk_index = 2

\* C3: search_on_page(t, a) and the search_next_on_page(b) calls that follow
\* it, with a >= 1 and every b >= 1 on a live session, deliver the stored
\* offsets in consecutive windows: the first call the offsets [0, a), each
\* later call the offsets from the delivered index on, none twice and none
\* skipped.
C3_ConsecutiveWindows ==
    /\ Live(current) =>
           \A t \in Needles, a \in NumSnippets :
               LET o == search_on_page_impl(Program, t, a, now)
                   M == Len(o.g.search_context.all_matches)
               IN  a >= 1 =>
                       /\ NoError(o.ret)
                       /\ Positions(o.ret.snippets)
                              = SubSeq(o.g.search_context.all_matches, 1, Min(a, M))
                       /\ o.g.search_context.current_index = Min(a, M)
    /\ (search_context.present /\ batches_ok /\ Live(search_context.session_id)) =>
           \A b \in NumSnippets :
               LET o == search_next_on_page_impl(Program, b, now)
                   ci == search_context.current_index
                   M == Len(search_context.all_matches)
               IN  b >= 1 =>
                       /\ NoError(o.ret)
                       /\ Positions(o.ret.snippets)
                              = SubSeq(search_context.all_matches, ci + 1, Min(ci + b, M))
                       /\ o.g.search_context.current_index = Min(ci + b, M)

\* read_chunk(i), for every index i of the current session's chunk list,
\* returns the chunk stored at i when the session was created, leaves the
\* linear cursor where it was, and the load_more that follows returns what it
\* would have returned without the read_chunk
ReadChunkIsRandomAccess ==
    \A i \in ChunkIndexes :
        (0 <= i /\ i < Len(sessions[current].content_chunks)) =>
            LET o == read_chunk_impl(Program, i, now)
            IN  /\ NoError(o.ret)
                /\ o.ret.content = sessions[current].created_chunks[i + 1]
                /\ o.ret.chunk_index = i
                /\ current \in DOMAIN o.g.sessions
                /\ o.g.sessions[current].current_chunk_index
                       = sessions[current].current_chunk_index
                /\ o.g.sessions[current].content_chunks
                       = sessions[current].content_chunks
                /\ load_more_impl(o.g, now).ret = load_more_impl(Program, now).ret

\* C4 as stated: the above for the current session, whatever calls came
\* before.
C4_Original ==
    current \in DOMAIN sessions => ReadChunkIsRandomAccess

\* C4 as amended: the above for a current session that is in the store and
\* not idle for longer than the timeout.
C4_ReadChunkRandomAccess ==
    Live(current) => ReadChunkIsRandomAccess

\* a live page of three chunks read up to its last chunk, with a search begun
C4_Witness ==
    /\ Live(current)
    /\ sessions[current].current_chunk_index = 2
    /\ search_context.present
    /\ search_context.current_index >= 1

\* C5: the session stored for an empty body text holds exactly one chunk,
\* the empty string.
C5_EmptyDocumentOneChunk ==
    \A sid \in DOMAIN sessions :
        (sessions[sid].has_chunks /\ sessions[sid].body = << >>) =>
            sessions[sid].content_chunks = << << >> >>

\* C6: every session with a chunk list has
\* 0 <= current_chunk_index <= len(content_chunks) - 1.
C6_CursorInRange ==
    \A sid \in DOMAIN sessions :
        sessions[sid].has_chunks =>
            /\ 0 <= sessions[sid].current_chunk_index
            /\ sessions[sid].current_chunk_index
                   <= Len(sessions[sid].content_chunks) - 1

\* the offsets at which needle occurs in text, letter case ignored
Occurrences(text, needle) ==
    {p \in 0..(Len(text) - Len(needle)) :
        LowerStr(SubSeq(text, p + 1, p + Len(needle))) = LowerStr(needle)}

\* the n smallest members of the set of numbers S, in increasing order
RECURSIVE Smallest(_, _)
Smallest(S, n) ==
    IF n <= 0 \/ S = {} THEN << >>
    ELSE LET m == CHOOSE x \in S : \A y \in S : x <= y
         IN  <<m>> \o Smallest(S \ {m}, n - 1)

\* C7: the offset list stored for a non-empty needle and num_snippets >= 1
\* is the increasing list of the first min(M, 10 * num_snippets) offsets at
\* which the needle occurs, letter case ignored, in the joined chunks, M
\* being the number of such offsets; overlapping occurrences count.
C7_StoredOffsets ==
    (/\ search_context.present
     /\ search_context.search_text # << >>
     /\ search_context.num_snippets >= 1
     /\ search_context.session_id \in DOMAIN sessions) =>
        LET text == Join(sessions[search_context.session_id].content_chunks)
            occ == Occurrences(text, search_context.search_text)
        IN  search_context.all_matches
                = Smallest(occ, Min(Cardinality(occ),
                                    match_cap_factor * search_context.num_snippets))

\* the cursor a successful search_on_page(t, n) on the current session stores
StoredCursor(t, n) ==
    LET text == Join(sessions[current].content_chunks)
        o == search_on_page_impl(Program, t, n, now)
    IN  [present |-> TRUE,
         session_id |-> current,
         search_text |-> t,
         all_matches |-> find_matches(LowerStr(text), LowerStr(t), 0, << >>, n),
         current_index |-> o.ret.snippets_returned,
         num_snippets |-> n]

\* C8: there is one Search Cursor. A search_on_page(t2, n2) that stores a
\* cursor stores the needle t2, the current session id, the offsets found
\* for t2 and the size of the first batch of t2 as delivered index, and
\* nothing of the cursor that was there before: the call made with an
\* unfinished search stored has the outcome of the call made with no search
\* stored. The stored offset list is always the one found for the stored
\* needle in the stored session, and every search_next_on_page that returns
\* snippets returns the stored needle and offsets of the stored list from
\* the delivered index on.
C8_OneSearchCursor ==
    /\ Live(current) =>
           \A t2 \in Needles, n2 \in NumSnippets :
               LET o == search_on_page_impl(Program, t2, n2, now)
                   fresh == search_on_page_impl(
                                [Program EXCEPT !.search_context = NoSearch],
                                t2, n2, now)
               IN  /\ NoError(o.ret)
                   /\ o.g.search_context = StoredCursor(t2, n2)
                   /\ o.g.search_context = fresh.g.search_context
                   /\ o.ret = fresh.ret
    /\ (search_context.present /\ search_context.session_id \in DOMAIN sessions) =>
           LET text == Join(sessions[search_context.session_id].content_chunks)
           IN  search_context.all_matches
                   = find_matches(LowerStr(text), LowerStr(search_context.search_text),
                                  0, << >>, search_context.num_snippets)
    /\ search_context.present =>
           \A b \in NumSnippets :
               LET o == search_next_on_page_impl(Program, b, now)
                   ci == search_context.current_index
                   all_matches == search_context.all_matches
               IN  NoError(o.ret) =>
                       /\ o.ret.search_text = search_context.search_text
                       /\ o.ret.total_matches = Len(all_matches)
                       /\ \A i \in 1..Len(o.ret.snippets) :
                              \E k \in 1..Len(all_matches) :
                                  /\ k >= ci + 1
                                  /\ all_matches[k] = o.ret.snippets[i].position
                       /\ o.g.search_context
                              = [search_context EXCEPT !.current_index
                                     = o.g.search_context.current_index]

\* an unfinished search is stored and a search_on_page on the live current
\* session replaces the needle, the session id, the offset list and the
\* delivered index of the cursor
C8_Witness ==
    /\ search_context.present
    /\ search_context.current_index < Len(search_context.all_matches)
    /\ Live(current)
    /\ \E t2 \in Needles, n2 \in NumSnippets :
           LET new == search_on_page_impl(Program, t2, n2, now).g.search_context
           IN  /\ new.search_text # search_context.search_text
               /\ new.session_id # search_context.session_id
               /\ new.all_matches # search_context.all_matches
               /\ new.current_index # search_context.current_index

\* the call that produced outcome o was refused with 'Session not found' for
\* the current session, returned no content and left the pointer on it
RefusedForCurrent(o) ==
    /\ SessionNotFound(o.ret, current)
    /\ o.g.current = current
    /\ current \notin DOMAIN o.g.sessions

\* C9: a session idle for longer than the timeout is never served.
\* get_session removes every such session before it looks up; load_more,
\* read_chunk and search_on_page on a current session that is idle for
\* longer than the timeout, or already evicted, return 'Session not found:
\* <id>' and nothing else, and leave the current-session pointer on it.
C9_ExpiredNeverServed ==
    /\ \A sid \in SessionIds, gone \in DOMAIN sessions :
           Expired(gone) => gone \notin DOMAIN get_session(Program, sid, now).sessions
    /\ (current # NoId /\ (Expired(current) \/ current \notin DOMAIN sessions)) =>
           /\ RefusedForCurrent(load_more_impl(Program, now))
           /\ \A i \in ChunkIndexes :
                  RefusedForCurrent(read_chunk_impl(Program, i, now))
           /\ \A t \in Needles, n \in NumSnippets :
                  LET o == search_on_page_impl(Program, t, n, now)
                  IN  /\ RefusedForCurrent(o)
                      /\ o.g.search_context = search_context

\* the current session holds a page of three chunks, has been read past its
\* first chunk and is idle for longer than the timeout, still in the store
C9_Witness ==
    /\ Expired(current)
    /\ Len(sessions[current].content_chunks) = 3
    /\ sessions[current].current_chunk_index >= 1

\* C10: when the session recorded in the Search Cursor has been evicted by
\* the timeout sweep or removed, search_next_on_page returns 'Session not
\* found: <id>' and nothing else, and leaves the cursor as it was.
C10_CursorSessionGone ==
    (/\ search_context.present
     /\ search_context.session_id # NoId
     /\ \/ search_context.session_id \notin DOMAIN sessions
        \/ Expired(search_context.session_id)) =>
        \A b \in NumSnippets :
            LET o == search_next_on_page_impl(Program, b, now)
            IN  /\ SessionNotFound(o.ret, search_context.session_id)
                /\ o.g.search_context = search_context

\* the decimal numeral of a small integer, written out
Numeral(n) ==
    CASE n = -2 -> <<"-", "2">>
      [] n = -1 -> <<"-", "1">>
      [] n = 0 -> <<"0">>
      [] n = 1 -> <<"1">>
      [] n = 2 -> <<"2">>
      [] n = 3 -> <<"3">>
      [] n = 4 -> <<"4">>
      [] n = 5 -> <<"5">>

\* read_chunk(i), for every index i outside the current session's chunk
\* list, returns a mapping with the error text 'Chunk index i is out of
\* range. Available chunks: 0 to len(chunks)-1', total_chunks = len(chunks)
\* and no content, and leaves the chunk list and the linear cursor alone
ReadChunkOutOfRange ==
    \A i \in ChunkIndexes :
        LET chunks == sessions[current].content_chunks
            o == read_chunk_impl(Program, i, now)
        IN  (i < 0 \/ i >= Len(chunks)) =>
                /\ DOMAIN o.ret = {"session_id", "chunk_index", "error", "total_chunks"}
                /\ o.ret.error = <<"Chunk index ">> \o Numeral(i)
                                     \o <<" is out of range. Available chunks: 0 to ">>
                                     \o Numeral(Len(chunks) - 1)
                /\ o.ret.total_chunks = Len(chunks)
                /\ o.ret.chunk_index = i
                /\ current \in DOMAIN o.g.sessions
                /\ o.g.sessions[current].content_chunks = chunks
                /\ o.g.sessions[current].current_chunk_index
                       = sessions[current].current_chunk_index

\* C11 as stated: the above for every current session with a chunk list.
C11_Original ==
    (current \in DOMAIN sessions /\ sessions[current].has_chunks)
        => ReadChunkOutOfRange

\* C11 as amended: the above for a current session that is in the store and
\* not idle for longer than the timeout.
C11_ReadChunkOutOfRange ==
    (Live(current) /\ sessions[current].has_chunks) => ReadChunkOutOfRange

\* a live page of three chunks with the linear cursor on its second chunk:
\* the indexes -1 and 3 offered to read_chunk are out of its range
C11_Witness ==
    /\ Live(current)
    /\ Len(sessions[current].content_chunks) = 3
    /\ sessions[current].current_chunk_index = 1
    /\ {-1, 3} \subseteq ChunkIndexes

\* the call that produced outcome o returned only the error text and changed
\* nothing in the Session Store, the current-session pointer or the Search
\* Cursor
RefusedUnchanged(o, text) ==
    /\ DOMAIN o.ret = {"error"}
    /\ o.ret.error = <<text>>
    /\ o.g = Program

\* C12: as long as no visit_page has succeeded there is no current session,
\* and load_more, read_chunk and search_on_page each return the error 'No
\* active session found. Please call visit_page first.' and change no state.
C12_NoActiveSession ==
    issued = 0 =>
        LET text == "No active session found. Please call visit_page first."
        IN  /\ current = NoId
            /\ sessions = << >>
            /\ RefusedUnchanged(load_more_impl(Program, now), text)
            /\ \A i \in ChunkIndexes :
                   RefusedUnchanged(read_chunk_impl(Program, i, now), text)
            /\ \A t \in Needles, n \in NumSnippets :
                   RefusedUnchanged(search_on_page_impl(Program, t, n, now), text)
            /\ \A u \in Urls, f \in Fetches :
                   (~validate_url(u) \/ f.raises) =>
                       /\ visit_page_impl(Program, u, f, now).g = Program
                       /\ "error" \in DOMAIN visit_page_impl(Program, u, f, now).ret

\* no visit_page has succeeded although time has passed, so that calls were
\* made long after the start of the process
C12_Witness ==
    /\ issued = 0
    /\ current = NoId
    /\ now > session_timeout

\* C13: as long as no search_on_page has stored a Search Cursor, the cursor
\* is the empty dict and search_next_on_page returns the error 'No active
\* search context found. Please call search_on_page first.' and changes no
\* state; a search_on_page refused for lack of an active session stores
\* none.
C13_NoSearchContext ==
    /\ ~search_context.present =>
           /\ search_context = NoSearch
           /\ \A b \in NumSnippets :
                  RefusedUnchanged(
                      search_next_on_page_impl(Program, b, now),
                      "No active search context found. Please call search_on_page first.")
    /\ current = NoId =>
           \A t \in Needles, n \in NumSnippets :
               search_on_page_impl(Program, t, n, now).g.search_context
                   = search_context

\* a page has been visited and read on, and no search has been made on it
C13_Witness ==
    /\ ~search_context.present
    /\ Live(current)
    /\ sessions[current].current_chunk_index >= 1

\* the key sets of the mappings the four tools return
ResultShapes ==
    { {"error"},
      {"status", "message"},
      {"status", "message", "content", "chunk_index", "has_more_chunks"},
      {"status", "message", "chunk_index", "has_more_chunks"},
      {"session_id", "chunk_index", "error", "total_chunks"},
      {"chunk_index", "error", "total_chunks"},
      {"chunk_index", "content", "total_chunks", "chunk_size"},
      {"search_text", "total_matches", "snippets_returned", "snippets"},
      {"search_text", "total_matches", "snippets_returned", "snippets", "message"},
      {"search_text", "total_matches", "snippets_returned", "snippets",
       "has_more_results"} }

\* the call returned a mapping of one of the shapes above
Returns(o) == DOMAIN o.ret \in ResultShapes

\* C14: in every reachable state and for every argument value, load_more,
\* read_chunk, search_on_page and search_next_on_page return a result
\* mapping (documented fields or an error field); no exception reaches the
\* caller.
C14_ToolsAlwaysReturn ==
    /\ Returns(load_more_impl(Program, now))
    /\ \A i \in ChunkIndexes : Returns(read_chunk_impl(Program, i, now))
    /\ \A t \in Needles, n \in NumSnippets :
           Returns(search_on_page_impl(Program, t, n, now))
    /\ \A b \in NumSnippets : Returns(search_next_on_page_impl(Program, b, now))

\* the delivered index is negative and the offset list empty, so that the
\* next search_next_on_page indexes the list out of range and its except
\* clause is what returns
C14_Witness ==
    /\ search_context.present
    /\ search_context.search_text # << >>
    /\ Live(search_context.session_id)
    /\ \E b \in NumSnippets :
           search_next_on_page_impl(Program, b, now).ret
               = [error |-> <<"Failed to search next on page: ",
                              "list index out of range">>]

\* C15: reading past the end is terminal and not an error. With cursor + 1
\* >= len(chunks), load_more returns status 'complete', has_more_chunks =
\* false and chunk_index = cursor, no error field, and leaves the cursor
\* where it is, on every later call as well; from a live current session
\* it is reached after exactly len(chunks) - 1 - cursor successful advances:
\* that number is not negative, and a load_more with cursor + 1 <
\* len(chunks) is a successful advance that lowers it by one.
C15_ReadingPastEnd ==
    (current \in DOMAIN sessions /\ sessions[current].has_chunks) =>
        LET K == Len(sessions[current].content_chunks)
            cursor == sessions[current].current_chunk_index
            o == load_more_impl(Program, now)
        IN  /\ cursor + 1 >= K =>
                /\ o.ret = [status |-> "complete",
                            message |-> <<"No more chunks available">>,
                            chunk_index |-> cursor,
                            has_more_chunks |-> FALSE]
                /\ current \in DOMAIN o.g.sessions
                /\ o.g.sessions[current].current_chunk_index = cursor
                /\ load_more_impl(o.g, now).ret = o.ret
            /\ Live(current) =>
                /\ K - 1 - cursor >= 0
                /\ cursor + 1 < K =>
                       /\ o.ret.status = "success"
                       /\ o.ret.chunk_index = cursor + 1
                       /\ o.g.sessions[current].current_chunk_index = cursor + 1

\* the ids create_session has returned so far
Issued == {IntStr(k) : k \in 1..issued}

\* C16: Session Store round trip. create_session(driver) returns a
\* non-empty id that is not a key of the store; get_session(id) right after
\* returns a record holding that driver; after remove_session(id) the
\* driver's quit has been called once and get_session(id) returns None;
\* remove_session of an id not in the store changes nothing. In every
\* reachable state quit has been called once for each removed session and
\* never for any other.
C16_StoreRoundTrip ==
    /\ IntStr(issued + 1) \in SessionIds =>
           LET driver == [id |-> issued + 1]
               id == IntStr(issued + 1)
               created == create_session(Program, driver, now)
               got == get_session(created, id, now)
               removed == remove_session(got, id)
           IN  /\ id # NoId
               /\ id \notin DOMAIN sessions
               /\ id \in DOMAIN created.sessions
               /\ id \in DOMAIN got.sessions
               /\ got.sessions[id].driver = driver
               /\ got.quit_calls[id] = 0
               /\ removed.quit_calls[id] = 1
               /\ id \notin DOMAIN removed.sessions
               /\ id \notin DOMAIN get_session(removed, id, now).sessions
    /\ \A sid \in SessionIds \ DOMAIN sessions :
           remove_session(Program, sid) = Program
    /\ \A sid \in SessionIds :
           quit_calls[sid] = IF sid \in Issued \ DOMAIN sessions THEN 1 ELSE 0

\* the first session has been created and removed, its driver quit once,
\* and a second id is still to be issued
C16_Witness ==
    /\ issued = 1
    /\ <<"1">> \notin DOMAIN sessions
    /\ quit_calls[<<"1">>] = 1

\* hostname is one of the blocked names or begins with a blocked prefix
BlockedHost(hostname) ==
    \/ hostname \in { <<"l", "o", "c", "a", "l", "h", "o", "s", "t">>,
                      <<"1", "2", "7", ".", "0", ".", "0", ".", "1">>,
                      <<"0", ".", "0", ".", "0", ".", "0">> }
    \/ \E prefix \in { <<"1", "9", "2", ".", "1", "6", "8", ".">>,
                       <<"1", "0", ".">>,
                       <<"1", "7", "2", ".">> } :
           /\ Len(hostname) >= Len(prefix)
           /\ \A k \in 1..Len(prefix) : hostname[k] = prefix[k]

\* visit_page refuses the url u without creating a session
VisitRefuses(u) ==
    \A f \in Fetches :
        LET o == visit_page_impl(Program, u, f, now)
        IN  /\ o.ret = [error |-> <<"Invalid or unsafe URL: ", u.text>>]
            /\ o.g = Program

\* C17: validate_url is false for every url whose scheme is not http or
\* https, false for every http/https url whose hostname is localhost,
\* 127.0.0.1 or 0.0.0.0 or begins with '192.168.', '10.' or '172.', and true
\* for every other http/https url with a hostname; visit_page refuses
\* exactly the urls for which it is false.
C17_ValidateUrl ==
    \A u \in Urls :
        /\ u.parses =>
               /\ u.scheme \notin {"http", "https"} => ~validate_url(u)
               /\ (u.scheme \in {"http", "https"} /\ u.hostname # << >>) =>
                      (validate_url(u) <=> ~BlockedHost(u.hostname))
        /\ ~validate_url(u) => VisitRefuses(u)
        /\ validate_url(u) => ~VisitRefuses(u)

\* a page has been visited through an accepted url, and urls of each
\* refused kind are among those offered
C17_Witness ==
    /\ issued >= 1
    /\ \E u \in Urls : u.scheme = "file" /\ ~validate_url(u)
    /\ \E u \in Urls : u.scheme = "http" /\ ~validate_url(u)
           /\ u.hostname = <<"1", "7", "2", ".", "1", "6", ".", "0", ".", "1">>
    /\ \E u \in Urls : validate_url(u)
           /\ u.hostname = <<"h", "t", "t", "p", "b", "i", "n", ".", "o", "r", "g">>

\* C18: the URL gate fails closed: validate_url is false for every url on
\* which urlparse raises and for every http/https url from which no
\* hostname can be parsed, so that visit_page refuses each of them.
C18_FailsClosed ==
    \A u \in Urls :
        (\/ ~u.parses
         \/ (u.scheme \in {"http", "https"} /\ u.hostname = << >>)) =>
            /\ ~validate_url(u)
            /\ VisitRefuses(u)

\* a successful visit_page adds one new session with linear cursor 0, points
\* the current-session pointer at it and returns chunk_index 0 with
\* has_more_chunks = (number of chunks > 1); the load_more, read_chunk and
\* search_on_page that follow it operate on the new page
VisitMakesPageCurrent ==
    \A u \in Urls, f \in Fetches :
        (validate_url(u) /\ ~f.raises /\ IntStr(issued + 1) \in SessionIds) =>
            LET id == IntStr(issued + 1)
                o == visit_page_impl(Program, u, f, now)
                chunks == o.g.sessions[id].content_chunks
                K == (Len(f.body) + chunk_size - 1) \div chunk_size
            IN  /\ id \notin DOMAIN sessions
                /\ DOMAIN o.g.sessions \ DOMAIN sessions = {id}
                /\ Join(chunks) = f.body
                /\ Len(chunks) = K
                /\ o.g.sessions[id].current_chunk_index = 0
                /\ o.g.current = id
                /\ NoError(o.ret)
                /\ o.ret.chunk_index = 0
                /\ o.ret.has_more_chunks = (K > 1)
                /\ K > 1 =>
                       /\ load_more_impl(o.g, now).ret.chunk_index = 1
                       /\ load_more_impl(o.g, now).ret.content
                              = format_chunk(1, chunks[2])
                /\ K > 0 => read_chunk_impl(o.g, 0, now).ret.content = chunks[1]
                /\ \A t \in Needles, n \in NumSnippets :
                       search_on_page_impl(o.g, t, n, now).g.search_context.session_id
                           = id

\* the first load_more after the visit_page that made the current page
\* current returns chunk 1 of that page, when the page has one
FirstLoadIsOfNewestPage ==
    (loads = 0 /\ Len(sessions[current].created_chunks) > 1) =>
        LET ret == load_more_impl(Program, now).ret
        IN  /\ NoError(ret)
            /\ ret.chunk_index = 1
            /\ ret.content = format_chunk(1, sessions[current].created_chunks[2])

\* C19 as stated: every successful visit_page makes its page the current
\* one, and the first load_more after it returns chunk 1 of that page,
\* whatever the read progress in an earlier page was.
C19_Original ==
    /\ VisitMakesPageCurrent
    /\ current \in DOMAIN sessions => FirstLoadIsOfNewestPage

\* C19 as amended: the same, for a first load_more made while the new
\* session is in the store and not idle for longer than the timeout.
C19_NewestPageIsCurrent ==
    /\ VisitMakesPageCurrent
    /\ Live(current) => FirstLoadIsOfNewestPage

\* a second page of three chunks has just been visited while the first
\* page, read up to its last chunk, is still in the store
C19_Witness ==
    /\ issued = 2
    /\ current = <<"2">>
    /\ loads = 0
    /\ Live(current)
    /\ Len(sessions[current].content_chunks) = 3
    /\ <<"1">> \in DOMAIN sessions
    /\ sessions[<<"1">>].current_chunk_index = 2

\* the text of a snippet without its '...' and bracket markers
IsMarker(c) == c \in {"...", "[", "]"}
Unmarked(snippet) == SelectSeq(snippet, LAMBDA c : ~IsMarker(c))

\* C20: search_next_on_page operates on the session recorded in the Search
\* Cursor, not on the current-session pointer. With a search stored for
\* page A and a later page B current, both sessions live, a
\* search_next_on_page with a batch size >= 1 returns snippets, each one the
\* text of A around an offset stored for A, and returns what it would
\* return with the pointer on A; it leaves the pointer and the session of B
\* as they are, and load_more, read_chunk and search_on_page go on
\* operating on B.
C20_SearchNextFollowsCursor ==
    (/\ search_context.present
     /\ batches_ok
     /\ Live(search_context.session_id)
     /\ Live(current)
     /\ current # search_context.session_id) =>
        \A b \in NumSnippets :
            b >= 1 =>
                LET A == search_context.session_id
                    text == Join(sessions[A].content_chunks)
                    needle == search_context.search_text
                    o == search_next_on_page_impl(Program, b, now)
                    onA == search_next_on_page_impl(
                               [Program EXCEPT !.current = A], b, now)
                IN  /\ NoError(o.ret)
                    /\ o.ret = onA.ret
                    /\ \A i \in 1..Len(o.ret.snippets) :
                           LET sn == o.ret.snippets[i]
                           IN  /\ sn.position \in Elements(search_context.all_matches)
                               /\ Unmarked(sn.snippet)
                                      = Slice(text,
                                              Max(0, sn.position - snippet_length \div 2),
                                              sn.position + Len(needle)
                                                  + snippet_length \div 2)
                    /\ o.g.current = current
                    /\ o.g.sessions[current] = sessions[current]
                    /\ load_more_impl(o.g, now).ret = load_more_impl(Program, now).ret
                    /\ \A i \in ChunkIndexes :
                           read_chunk_impl(o.g, i, now).ret
                               = read_chunk_impl(Program, i, now).ret
                    /\ \A t \in Needles, n \in NumSnippets :
                           search_on_page_impl(o.g, t, n, now).g.search_context.session_id
                               = current

\* C21: for every num_snippets value, 0 included, search_on_page collects at
\* most 10 * num_snippets offsets: the offset list it stores and the
\* total_matches it reports have at most that size.
C21_MatchCap ==
    Live(current) =>
        \A t \in Needles, n \in NumSnippets :
            LET o == search_on_page_impl(Program, t, n, now)
            IN  /\ NoError(o.ret)
                /\ Len(o.g.search_context.all_matches) <= match_cap_factor * n
                /\ o.ret.total_matches <= match_cap_factor * n

\* the snippet sn of the text for the needle marks, between '[' and ']',
\* the occurrence that starts at sn.position, with at most snippet_length /
\* 2 characters of the text before it and at most as many after it
MarksItsPosition(sn, text, needle) ==
    LET pos == sn.position
        half == snippet_length \div 2
    IN  /\ pos >= 0
        /\ pos + Len(needle) <= Len(text)
        /\ \E lb \in 0..Min(half, pos), la \in 0..half :
               sn.snippet = <<"...">> \o Slice(text, pos - lb, pos)
                                \o <<"[">> \o Slice(text, pos, pos + Len(needle))
                                \o <<"]">>
                                \o Slice(text, pos + Len(needle),
                                         pos + Len(needle) + la)
                                \o <<"...">>

\* C22: in every snippet returned by search_on_page or search_next_on_page
\* the text between the bracket markers is the occurrence that starts at the
\* snippet's reported position in the concatenated text, preceded by at most
\* 100 characters of the text before it and followed by at most 100 after
\* it, also when another occurrence lies within the 100 characters before.
C22_SnippetMarksPosition ==
    /\ Live(current) =>
           \A t \in Needles, n \in NumSnippets :
               LET o == search_on_page_impl(Program, t, n, now)
                   text == Join(sessions[current].content_chunks)
               IN  \A i \in 1..Len(o.ret.snippets) :
                       MarksItsPosition(o.ret.snippets[i], text, t)
    /\ (search_context.present /\ Live(search_context.session_id)) =>
           \A b \in NumSnippets :
               LET o == search_next_on_page_impl(Program, b, now)
                   text == Join(sessions[search_context.session_id].content_chunks)
               IN  NoError(o.ret) =>
                       \A i \in 1..Len(o.ret.snippets) :
                           MarksItsPosition(o.ret.snippets[i], text,
                                            search_context.search_text)

\* the chunks whose span of the concatenated text holds the offset position
ChunksHolding(content_chunks, position) ==
    {k \in 0..(Len(content_chunks) - 1) :
        LET before == Len(Join(SubSeq(content_chunks, 1, k)))
        IN  before <= position /\ position < before + Len(content_chunks[k + 1])}

\* C23: matching ignores chunk boundaries and attribution follows the match
\* start. For a non-empty needle an occurrence that begins in one chunk and
\* ends in the next is among the stored offsets (the cap permitting), and
\* the chunk_index of every returned snippet is the one chunk whose span
\* holds the snippet's position, which is position div chunk_size.
C23_ChunkAttribution ==
    Live(current) =>
        \A t \in Needles, n \in NumSnippets :
            t # << >> =>
                LET o == search_on_page_impl(Program, t, n, now)
                    chunks == sessions[current].content_chunks
                    text == Join(chunks)
                    stored == o.g.search_context.all_matches
                IN  /\ \A p \in Occurrences(text, t) :
                           (/\ p \div chunk_size # (p + Len(t) - 1) \div chunk_size
                            /\ Len(stored) < match_cap_factor * n) =>
                               p \in Elements(stored)
                    /\ \A i \in 1..Len(o.ret.snippets) :
                           LET sn == o.ret.snippets[i]
                           IN  /\ ChunksHolding(chunks, sn.position) = {sn.chunk_index}
                               /\ sn.chunk_index = sn.position \div chunk_size

\* the session sid is in the store of g with last_used = t
Refreshed(g, sid, t) ==
    /\ sid \in DOMAIN g.sessions
    /\ g.sessions[sid].last_used = t

\* the errors a tool returns before it looks any session up
BeforeLookup(ret) ==
    /\ DOMAIN ret = {"error"}
    /\ ret.error \in
           { <<"No active session found. Please call visit_page first.">>,
             <<"No active search context found. Please call search_on_page first.">>,
             <<"No search text found in context.">>,
             <<"No session ID found in context.">> }

\* C24: every get_session call, for an id in the store or not, at this time
\* or later, first removes every session whose idle time is strictly
\* greater than the timeout and keeps every session whose idle time is at
\* most the timeout, untouched but for the looked-up one, whose last_used it
\* sets to the time of the call. So a session that load_more, read_chunk,
\* search_on_page or search_next_on_page looks up while its idle time is at
\* most the timeout is in the store after the call with idle time 0.
C24_SweepThenTouch ==
    /\ \A sid \in SessionIds, d \in {0, 1} :
           LET t == now + d
               g == get_session(Program, sid, t)
           IN  /\ DOMAIN g.sessions
                      = {s \in DOMAIN sessions : t - sessions[s].last_used <= session_timeout}
               /\ \A s \in DOMAIN g.sessions :
                      g.sessions[s] = IF s = sid
                                      THEN [sessions[s] EXCEPT !.last_used = t]
                                      ELSE sessions[s]
               /\ g.current = current
               /\ g.search_context = search_context
    /\ Live(current) =>
           /\ Refreshed(load_more_impl(Program, now).g, current, now)
           /\ \A i \in ChunkIndexes :
                  Refreshed(read_chunk_impl(Program, i, now).g, current, now)
           /\ \A t \in Needles, n \in NumSnippets :
                  Refreshed(search_on_page_impl(Program, t, n, now).g, current, now)
    /\ (search_context.present /\ Live(search_context.session_id)) =>
           \A b \in NumSnippets :
               LET o == search_next_on_page_impl(Program, b, now)
               IN  ~BeforeLookup(o.ret) =>
                       Refreshed(o.g, search_context.session_id, now)

\* one session is idle for exactly the timeout and is the one a
\* search_next_on_page looks up, and a second session is in the store
C24_Witness ==
    /\ search_context.present
    /\ search_context.search_text # << >>
    /\ search_context.session_id \in DOMAIN sessions
    /\ now - sessions[search_context.session_id].last_used = session_timeout
    /\ current # search_context.session_id
    /\ current \in DOMAIN sessions

\* the sessions of the store whose driver's quit() raises
Raising == {sid \in DOMAIN sessions : quit_raises(sessions[sid].driver)}

\* g is Program with the sessions gone removed from the store, one quit()
\* attempted on each of them and on no other
RemovedOnce(g, gone) ==
    /\ DOMAIN g.sessions = DOMAIN sessions \ gone
    /\ \A s \in DOMAIN g.sessions : g.sessions[s] = sessions[s]
    /\ \A s \in SessionIds :
           g.quit_calls[s] = quit_calls[s] + (IF s \in gone THEN 1 ELSE 0)
    /\ g.current = current
    /\ g.search_context = search_context
    /\ g.issued = issued

\* C25: cleanup is best-effort. remove_session of a session of the store,
\* whether its driver's quit() raises or not, returns with the record
\* deleted and one quit() attempted; a sweep, at any time, removes every
\* session idle for longer than the timeout, the ones whose quit() raises
\* and the ones after them, with one quit() attempted for each; and over
\* the whole run quit() has been attempted once for every removed session
\* and never for a session of the store.
C25_BestEffortCleanup ==
    /\ \A sid \in DOMAIN sessions : RemovedOnce(remove_session(Program, sid), {sid})
    /\ \A d \in {0, 1, session_timeout + 1} :
           RemovedOnce(cleanup_expired_sessions(Program, now + d),
                       {sid \in DOMAIN sessions :
                            now + d - sessions[sid].last_used > session_timeout})
    /\ \A sid \in SessionIds, d \in {0, 1} :
           DOMAIN get_session(Program, sid, now + d).sessions \cap Raising
               = {s \in Raising : now + d - sessions[s].last_used <= session_timeout}
    /\ \A sid \in SessionIds :
           quit_calls[sid] = IF sid \in DOMAIN sessions THEN 0
                             ELSE IF sid \in Issued THEN 1 ELSE 0

\* two sessions are idle for longer than the timeout, the quit() of one of
\* them raises and the quit() of the other returns
C25_Witness ==
    /\ Raising # {}
    /\ DOMAIN sessions \ Raising # {}
    /\ \A sid \in DOMAIN sessions : now - sessions[sid].last_used > session_timeout

\* a load_more made in the state g serves the next chunk of the page of the
\* session that is current in this state
ContinuesPreviousPage(g) ==
    LET ret == load_more_impl(g, now).ret
        session == sessions[current]
        next_index == session.current_chunk_index + 1
    IN  /\ DOMAIN ret = {"status", "message", "content", "chunk_index",
                         "has_more_chunks"}
        /\ ret.chunk_index = next_index
        /\ ret.content = format_chunk(next_index, session.content_chunks[next_index + 1])
        /\ load_more_impl(g, now).g.current = current

ChunkText(i, raw) ==
    <<"Chunk ">> \o Numeral(i) \o <<"\n">> \o raw
        \o (IF Len(raw) = chunk_size THEN <<"...">> ELSE << >>)

\* C27: the content visit_page returns is ChunkText of 0 and the first
\* chunk_size characters of the page body, which is the stored chunk 0 when
\* the body is not empty; the content of every successful load_more is
\* ChunkText of the new cursor i and the stored chunk i. The marker follows
\* the chunk length alone: a full-size chunk carries it also when
\* has_more_chunks is false, a shorter one never does.
C27_ChunkFormat ==
    /\ \A u \in Urls, f \in Fetches :
           (validate_url(u) /\ ~f.raises) =>
               LET o == visit_page_impl(Program, u, f, now)
                   chunks == o.g.sessions[o.g.current].content_chunks
               IN  /\ o.ret.chunk_index = 0
                   /\ o.ret.content = ChunkText(0, Slice(f.body, 0, chunk_size))
                   /\ (o.ret.content[Len(o.ret.content)] = "...")
                          <=> (Len(f.body) >= chunk_size)
                   /\ f.body # << >> =>
                          /\ chunks[1] = Slice(f.body, 0, chunk_size)
                          /\ o.ret.content = ChunkText(0, chunks[1])
    /\ current \in DOMAIN sessions =>
           LET o == load_more_impl(Program, now)
           IN  ("status" \in DOMAIN o.ret /\ o.ret.status = "success") =>
                   LET i == o.g.sessions[current].current_chunk_index
                       raw == sessions[current].content_chunks[i + 1]
                   IN  /\ o.ret.chunk_index = i
                       /\ i = sessions[current].current_chunk_index + 1
                       /\ o.ret.content = ChunkText(i, raw)
                       /\ (o.ret.content[Len(o.ret.content)] = "...")
                              <=> (Len(raw) = chunk_size)

\* the current page is one full-size chunk, returned with the marker and
\* has_more_chunks = false, and another page in the store is read on to a
\* chunk shorter than chunk_size
C27_Witness ==
    /\ Live(current)
    /\ Len(sessions[current].content_chunks) = 1
    /\ Len(sessions[current].content_chunks[1]) = chunk_size
    /\ \E sid \in DOMAIN sessions :
           /\ sessions[sid].current_chunk_index = 2
           /\ Len(sessions[sid].content_chunks[3]) < chunk_size

\* C28: a search_next_on_page that reports has_more_results reports true
\* exactly when the delivered index it leaves is smaller than the number of
\* stored offsets. For a search continued with batch sizes >= 1 only, on a
\* session in the store and not idle for longer than the timeout, every
\* further search_next_on_page with a batch size >= 1 returns a result
\* with has_more_results and moves the delivered index, which is never
\* negative, up by at least one while offsets remain, so that
\* has_more_results = false is reached after at most len(all_matches)
\* calls; once no offset remains the call returns zero snippets and
\* has_more_results = false and leaves the index where it is.
C28_HasMoreResults ==
    search_context.present =>
        LET total == Len(search_context.all_matches)
            cur == search_context.current_index
        IN  /\ \A n \in NumSnippets :
                   LET o == search_next_on_page_impl(Program, n, now)
                   IN  "has_more_results" \in DOMAIN o.ret =>
                           o.ret.has_more_results
                               = (o.g.search_context.current_index
                                      < Len(o.g.search_context.all_matches))
            /\ (batches_ok /\ Live(search_context.session_id)) =>
                   \A n \in NumSnippets :
                       n >= 1 =>
                           LET o == search_next_on_page_impl(Program, n, now)
                               new == o.g.search_context.current_index
                           IN  /\ "has_more_results" \in DOMAIN o.ret
                               /\ 0 <= cur
                               /\ Len(o.g.search_context.all_matches) = total
                               /\ cur < total => (cur < new /\ new <= total)
                               /\ cur >= total =>
                                      /\ new = cur
                                      /\ o.ret.snippets = << >>
                                      /\ o.ret.snippets_returned = 0
                                      /\ o.ret.has_more_results = FALSE

\* C29: in every reachable state with a Search Cursor the delivered index
\* satisfies 0 <= current_index <= len(all_matches), and a
\* search_next_on_page with any batch size, zero and negative included,
\* leaves an index that is not smaller than the one it found and a cursor
\* of the same search.
C29_DeliveredIndexInRange ==
    search_context.present =>
        /\ 0 <= search_context.current_index
        /\ search_context.current_index <= Len(search_context.all_matches)
        /\ \A n \in NumSnippets :
               LET after == search_next_on_page_impl(Program, n, now).g.search_context
               IN  /\ after.current_index >= search_context.current_index
                   /\ after.all_matches = search_context.all_matches
                   /\ after.search_text = search_context.search_text

\* C30: after any search_on_page that returns a non-error result, for any
\* needle, the empty one included, and any batch size, a following
\* search_next_on_page with any batch size and the session still in the
\* store and not idle for longer than the timeout returns a non-error
\* result with the same search_text and the same total_matches.
C30_SearchNextOnlyFailures ==
    Live(current) =>
        \A text \in Needles, n \in NumSnippets :
            LET first == search_on_page_impl(Program, text, n, now)
            IN  NoError(first.ret) =>
                    \A b \in NumSnippets :
                        LET next == search_next_on_page_impl(first.g, b, now)
                        IN  /\ NoError(next.ret)
                            /\ next.ret.search_text = first.ret.search_text
                            /\ next.ret.total_matches = first.ret.total_matches

====
